---- MODULE Spec2Model ----
(***************************************************************************)
(* A model of ast_code_diff.py: structure extraction, the per-line index,  *)
(* the unified-diff parser and the analyzer cache.                         *)
(*                                                                         *)
(* A CodeStructure is a record; the parent reference of a structure is the *)
(* position of the parent in the analyzer's list `structures` (0 = None).  *)
(* A reference to a structure of an analyzer is likewise its position in   *)
(* that list, so that two distinct objects with equal fields stay distinct.*)
(* Text (a diff line, a source line) is a sequence of tokens: one-character *)
(* strings, and one string for a run of digits, a path prefix, a file stem *)
(* or a file extension.                                                    *)
(***************************************************************************)
EXTENDS Integers, Sequences, FiniteSets, TLC

VARIABLES
    \* ---- one LanguageAnalyzer under construction and queried
    structures,     \* self.structures
    line_map,       \* self.line_map: line number -> position in structures
    an_pc,          \* "idle" | "created" | "extracted" | "built" | "looked"
    query,          \* the line_num last passed to get_structure_at_line
    result,         \* what get_structure_at_line returned (0 = None)
    self_content,   \* self.content: the source text given to the analyzer
    end_writes      \* per structure: the assignments to end_line since its creation

anVars == <<structures, line_map, an_pc, query, result, self_content, end_writes>>

VARIABLES
    \* ---- DiffAnalyzer: self.analyzers and the locals of analyze()
    analyzers,              \* self.analyzers: cache key -> analyzer
    changes,                \* changes: file path -> list of DiffChange
    current_file,
    current_file_old,
    current_line_new,
    current_line_old,
    current_analyzer_new,   \* the cache key of the analyzer, or None
    current_analyzer_old,
    line,                   \* the loop variable: the line processed last
    df_pc,                  \* "idle" | "parsing"
    \* ---- observers of the run (not state of the program)
    fed,                    \* number of lines processed
    parse_calls,            \* cache key -> number of calls of analyzer.parse()
    hunk                    \* what was fed since the last well-formed hunk header

dfVars == <<analyzers, changes, current_file, current_file_old,
            current_line_new, current_line_old, current_analyzer_new,
            current_analyzer_old, line, df_pc, fed, parse_calls, hunk>>

vars == <<anVars, dfVars>>

None == 0
NoText == <<"<None>">>          \* Python's None where a str is expected

\* The observer of the hunk. What analyze() made of the lines since the last
\* hunk header it accepted: the two groups of the header (old, new) and the
\* number of lines that took the context, the addition and the deletion
\* branch. What the producer of the diff put there: the start and the count
\* of new lines its last hunk header declared (t_start, decl_new), whether
\* only body lines followed that header (intact) and how many of them are
\* lines of the new file (t_new). scen: how far the lines follow Scenario.
\* named: the files for which the diff had file header lines so far.
\* pending, pair: the file of an old-file header that was the last line
\* (pending), and the file whose old-file header and new-file header, one
\* after the other, were the last header lines (pair).
NoHunk ==
    [open |-> FALSE, old |-> 0, new |-> 0, ctx |-> 0, add |-> 0, del |-> 0,
     intact |-> FALSE, t_start |-> 0, decl_new |-> 0, t_new |-> 0, scen |-> 0,
     named |-> {}, pending |-> NoText, pair |-> NoText]

\* DiffAnalyzer.__init__ and the first lines of analyze()
DiffAnalyzerInit ==
    /\ analyzers = [k \in {} |-> 0]
    /\ changes = [k \in {} |-> <<>>]
    /\ current_file = NoText
    /\ current_file_old = NoText
    /\ current_line_new = 0
    /\ current_line_old = 0
    /\ current_analyzer_new = NoText
    /\ current_analyzer_old = NoText
    /\ line = NoText
    /\ fed = 0
    /\ parse_calls = [k \in {} |-> 0]
    /\ hunk = NoHunk

IdleDiff == DiffAnalyzerInit /\ df_pc = "idle"

InitDiff == DiffAnalyzerInit /\ df_pc = "parsing"

\* ------------------------------------------------------------------ bounds
MaxLine == 3        \* line numbers of the structures drawn for the index
MaxStructs == 3     \* length of the structure lists drawn for the index

\* ---------------------------------------------------------- CodeStructure
CodeStructure(name, type, start_line, end_line, parent, modifiers) ==
    [name |-> name, type |-> type, start_line |-> start_line,
     end_line |-> end_line, parent |-> parent, modifiers |-> modifiers]

line_count(s) == s.end_line - s.start_line + 1

Covers(s, n) == s.start_line <= n /\ n <= s.end_line

\* ------------------------------------------------------- LanguageAnalyzer
\* min(candidates, key=line_count): the first of the minimal ones, in list order
MinByLineCount(structs, cands) ==
    CHOOSE i \in cands :
        /\ \A j \in cands : line_count(structs[i]) <= line_count(structs[j])
        /\ \A j \in cands :
              line_count(structs[j]) = line_count(structs[i]) => i <= j

get_structure_at_line(structs, lm, line_num) ==
    IF line_num \in DOMAIN lm
    THEN lm[line_num]
    ELSE LET candidates == {i \in 1..Len(structs) : Covers(structs[i], line_num)}
         IN  IF candidates # {} THEN MinByLineCount(structs, candidates) ELSE None

\* the body of the inner loop of build_line_map, for structure i and one line
ClaimLineFirstSeen(lm, structs, i, ln) ==
    IF ln \notin DOMAIN lm THEN lm @@ (ln :> i) ELSE lm

\* a variant in which a structure that finds itself in the table gives the
\* line up
ClaimLineRelease(lm, structs, i, ln) ==
    IF ln \notin DOMAIN lm
    THEN lm @@ (ln :> i)
    ELSE IF lm[ln] = i
         THEN [l \in DOMAIN lm \ {ln} |-> lm[l]]
         ELSE IF line_count(structs[i]) < line_count(structs[lm[ln]])
              THEN [lm EXCEPT ![ln] = i]
              ELSE lm

\* a variant in which a structure of the same size takes the line over
ClaimLineLastSeen(lm, structs, i, ln) ==
    IF ln \notin DOMAIN lm
    THEN lm @@ (ln :> i)
    ELSE IF line_count(structs[i]) <= line_count(structs[lm[ln]])
         THEN [lm EXCEPT ![ln] = i]
         ELSE lm

ClaimLine(lm, structs, i, ln) ==
    IF ln \notin DOMAIN lm
    THEN lm @@ (ln :> i)
    ELSE IF line_count(structs[i]) < line_count(structs[lm[ln]])
         THEN [lm EXCEPT ![ln] = i]
         ELSE lm

RECURSIVE ClaimRange(_, _, _, _, _)
ClaimRange(lm, structs, i, ln, last) ==
    IF ln > last THEN lm
    ELSE ClaimRange(ClaimLine(lm, structs, i, ln), structs, i, ln + 1, last)

RECURSIVE BuildFrom(_, _, _)
BuildFrom(lm, structs, i) ==
    IF i > Len(structs) THEN lm
    ELSE BuildFrom(ClaimRange(lm, structs, i, structs[i].start_line,
                              structs[i].end_line), structs, i + 1)

build_line_map(structs, lm) == BuildFrom(lm, structs, 1)

EmptyMap == [l \in {} |-> None]

\* ------------------------------------------- the index on drawn structures
RECURSIVE SeqsUpTo(_, _)
SeqsUpTo(S, n) ==
    IF n = 0 THEN {<<>>}
    ELSE LET shorter == SeqsUpTo(S, n - 1)
         IN  shorter \cup {Append(q, x) : q \in {r \in shorter : Len(r) = n - 1}, x \in S}

Ranges == {r \in (1..MaxLine) \X (1..MaxLine) : r[1] <= r[2]}

DrawnStructure(r) == CodeStructure("s", "function", r[1], r[2], None, <<>>)

DrawnStructureLists ==
    {[k \in 1..Len(q) |-> DrawnStructure(q[k])] : q \in SeqsUpTo(Ranges, MaxStructs)}

InitIndex ==
    /\ IdleDiff
    /\ structures \in DrawnStructureLists
    /\ line_map = EmptyMap
    /\ an_pc = "extracted"
    /\ query = 0
    /\ result = None
    /\ self_content = NoText
    /\ end_writes = <<>>

\* parse(): self.build_line_map() once the extraction is over; a second call
\* runs the same loops over the map the first one left
BuildLineMap ==
    /\ an_pc \in {"extracted", "built"}
    /\ line_map' = build_line_map(structures, line_map)
    /\ an_pc' = "built"
    /\ UNCHANGED <<structures, query, result, self_content, end_writes>>
    /\ UNCHANGED dfVars

\* a call of get_structure_at_line with one of the line numbers
LookupIn(line_nums) ==
    /\ an_pc \in {"built", "looked"}
    /\ \E n \in line_nums :
          /\ query' = n
          /\ result' = get_structure_at_line(structures, line_map, n)
    /\ an_pc' = "looked"
    /\ UNCHANGED <<structures, line_map, self_content, end_writes>>
    /\ UNCHANGED dfVars

Lookup == LookupIn(0..(MaxLine + 1))

NextIndex == BuildLineMap \/ Lookup

SpecIndex == InitIndex /\ [][NextIndex]_vars

\* ------------------------------------------------------------------ C1
Covering(structs, n) == {i \in 1..Len(structs) : Covers(structs[i], n)}

\* C1: once the index is built, get_structure_at_line(N) returns a structure
\* whose range contains N and whose line_count is minimal among the
\* structures whose range contains N, and None exactly when none contains N.
LookupInnermost ==
    an_pc = "looked" =>
        /\ result = None <=> Covering(structures, query) = {}
        /\ result # None =>
              /\ result \in Covering(structures, query)
              /\ \A j \in Covering(structures, query) :
                    line_count(structures[result]) <= line_count(structures[j])

LookupInnermostWitness ==
    /\ an_pc = "looked"
    /\ result # None
    /\ \E j \in Covering(structures, query) :
          /\ j < result
          /\ line_count(structures[j]) > line_count(structures[result])

\* ==================================================================== text
Truthy(t) == t # NoText /\ t # <<>>

StartsWith(t, p) == Len(t) >= Len(p) /\ SubSeq(t, 1, Len(p)) = p

\* the first position >= from at which p occurs in t, or 0
RECURSIVE Find(_, _, _)
Find(t, p, from) ==
    IF from + Len(p) - 1 > Len(t) THEN 0
    ELSE IF SubSeq(t, from, from + Len(p) - 1) = p THEN from
    ELSE Find(t, p, from + 1)

\* t.split(sep)[1], for a text in which sep occurs
SplitSecond(t, sep) ==
    LET first == Find(t, sep, 1)
        rest == SubSeq(t, first + Len(sep), Len(t))
        nxt == Find(rest, sep, 1)
    IN  IF nxt = 0 THEN rest ELSE SubSeq(rest, 1, nxt - 1)

Whitespace == {" "}

RECURSIVE LStrip(_)
LStrip(t) ==
    IF t # <<>> /\ Head(t) \in Whitespace THEN LStrip(Tail(t)) ELSE t

RECURSIVE RStrip(_)
RStrip(t) ==
    IF t # <<>> /\ t[Len(t)] \in Whitespace
    THEN RStrip(SubSeq(t, 1, Len(t) - 1))
    ELSE t

Strip(t) == LStrip(RStrip(t))

Minus3 == <<"-", "-", "-">>
Plus3 == <<"+", "+", "+">>
At2 == <<"@", "@">>
DIFF_FILE_PREFIX == <<"b/">>
OLD_FILE_PREFIX == <<"a/">>

\* a run of digits is one token; int() of it
Digits == {"1", "2", "3", "4", "10"}
IntOf(tok) ==
    CASE tok = "1" -> 1 [] tok = "2" -> 2 [] tok = "3" -> 3
      [] tok = "4" -> 4 [] tok = "10" -> 10

\* re.match(r'@@ -(\d+),?\d* \+(\d+),?\d* @@', line): the two groups, or no match
At(t, i) == IF i <= Len(t) THEN t[i] ELSE ""

\* the position after ",?\d*" read from position i
AfterCount(t, i) ==
    LET j == IF At(t, i) = "," THEN i + 1 ELSE i
    IN  IF At(t, j) \in Digits THEN j + 1 ELSE j

HunkMatch(t) ==
    LET p == AfterCount(t, 6)
        q == AfterCount(t, p + 3)
        ok == /\ SubSeq(t, 1, 4) = <<"@", "@", " ", "-">>
              /\ At(t, 5) \in Digits
              /\ At(t, p) = " " /\ At(t, p + 1) = "+"
              /\ At(t, p + 2) \in Digits
              /\ At(t, q) = " " /\ At(t, q + 1) = "@" /\ At(t, q + 2) = "@"
    IN  IF Len(t) >= 4 /\ ok
        THEN [matched |-> TRUE, old |-> IntOf(t[5]), new |-> IntOf(t[p + 2])]
        ELSE [matched |-> FALSE, old |-> 0, new |-> 0]

\* ==================================================== the files of the run
\* What `git show HEAD:<path>` prints and what is on disk are given per path.
\* A content is described by what the parser makes of it: whether it parses
\* and the structures the extractor then lists.
Content(parses, structs) ==
    [avail |-> TRUE, empty |-> FALSE, parses |-> parses, structures |-> structs]
NoContent == [avail |-> FALSE, empty |-> FALSE, parses |-> FALSE, structures |-> <<>>]
EmptyContent == [avail |-> TRUE, empty |-> TRUE, parses |-> TRUE, structures |-> <<>>]

GoodPy == <<"good", ".py">>
BadPy == <<"bad", ".py">>
FixedPy == <<"fixed", ".py">>
NotesMd == <<"notes", ".md">>
NewPy == <<"new", ".py">>       \* not in HEAD: `git show` exits with an error
DevNull == <<"/dev/null">>

OrderOld ==
    << CodeStructure("Order", "class", 1, 6, None, <<>>),
       CodeStructure("total", "method", 2, 3, 1, <<>>),
       CodeStructure("helper", "function", 10, 11, None, <<>>) >>
OrderNew ==
    << CodeStructure("Order", "class", 1, 7, None, <<>>),
       CodeStructure("total", "method", 2, 4, 1, <<>>),
       CodeStructure("helper", "function", 11, 12, None, <<>>) >>
OneFunction == << CodeStructure("f", "function", 1, 3, None, <<>>) >>

\* subprocess.run(['git', 'show', f'HEAD:{file_path}']): stdout, or None
HeadContent(file_path) ==
    CASE file_path = GoodPy -> Content(TRUE, OrderOld)
      [] file_path = BadPy -> Content(TRUE, OneFunction)
      [] file_path = FixedPy -> Content(FALSE, <<>>)
      [] file_path = NotesMd -> Content(TRUE, <<>>)
      [] OTHER -> NoContent

\* the file under repo_path (or at the absolute path), or nothing
DiskContent(file_path) ==
    CASE file_path = GoodPy -> Content(TRUE, OrderNew)
      [] file_path = BadPy -> Content(FALSE, <<>>)
      [] file_path = FixedPy -> Content(TRUE, OneFunction)
      [] file_path = NotesMd -> Content(TRUE, <<>>)
      [] file_path = NewPy -> Content(TRUE, OneFunction)
      [] file_path = DevNull -> EmptyContent
      [] OTHER -> NoContent

JAVALANG_AVAILABLE == TRUE

Extensions == {".py", ".java", ".md"}

\* Path(file_path).suffix.lower()
Suffix(file_path) ==
    IF Len(file_path) >= 2 /\ file_path[Len(file_path)] \in Extensions
    THEN file_path[Len(file_path)]
    ELSE ""

\* ============================================================ DiffAnalyzer
get_old_file_content(file_path) == HeadContent(file_path)

\* `if old_content:` - None and the empty string are both false
ContentTruthy(c) == c.avail /\ ~c.empty

\* PythonAnalyzer.parse / JavaAnalyzer.parse on a content: the analyzer as
\* parse leaves it (structures extracted, line map built), or a failure
ParsedAnalyzer(file_path, c) ==
    [file_path |-> file_path, structures |-> c.structures,
     line_map |-> build_line_map(c.structures, EmptyMap)]

\* a variant that caches and returns the analyzer whatever parse() returned
GetOrCreateKeepFailed(cache, file_path, content, key) ==
    LET file_content == IF content.avail THEN content ELSE DiskContent(file_path)
        suffix == Suffix(file_path)
        supported == suffix = ".py" \/ (suffix = ".java" /\ JAVALANG_AVAILABLE)
    IN  IF ~file_content.avail \/ ~supported
        THEN [ret |-> NoText, cache |-> cache, parsed |-> NoText]
        ELSE [ret |-> key,
              cache |-> cache @@ (key :> ParsedAnalyzer(file_path,
                           IF file_content.parses THEN file_content
                           ELSE [file_content EXCEPT !.structures = <<>>])),
              parsed |-> key]

\* _get_or_create_analyzer(file_path, content, cache_key) on the cache `cache`:
\* ret is the analyzer returned (its cache key) or NoText for None, cache the
\* cache afterwards, parsed whether analyzer.parse() was called
GetOrCreateUncached(cache, file_path, content, key) ==
    LET file_content == IF content.avail THEN content ELSE DiskContent(file_path)
        suffix == Suffix(file_path)
        supported == suffix = ".py" \/ (suffix = ".java" /\ JAVALANG_AVAILABLE)
    IN  IF ~file_content.avail \/ ~supported
        THEN [ret |-> NoText, cache |-> cache, parsed |-> NoText]
        ELSE IF file_content.parses
        THEN [ret |-> key,
              cache |-> cache @@ (key :> ParsedAnalyzer(file_path, file_content)),
              parsed |-> key]
        ELSE [ret |-> NoText, cache |-> cache, parsed |-> key]

get_or_create_analyzer(cache, file_path, content, cache_key) ==
    LET key == IF Truthy(cache_key) THEN cache_key ELSE file_path
    IN  IF key \in DOMAIN cache
        THEN [ret |-> key, cache |-> cache, parsed |-> NoText]
        ELSE GetOrCreateUncached(cache, file_path, content, key)

OldKey(file_path_old) == file_path_old \o <<":old">>

\* analyzer.get_structure_at_line(n) for the analyzer cached under key: a
\* reference to one of its structures, ix = 0 for None
NoStructure == [an |-> NoText, ix |-> None]
StructureAt(cache, key, n) ==
    LET ix == get_structure_at_line(cache[key].structures, cache[key].line_map, n)
    IN  IF ix = None THEN NoStructure ELSE [an |-> key, ix |-> ix]

DiffChange(file_path, line_num, content, structure, change_type) ==
    [file_path |-> file_path, line_num |-> line_num, content |-> content,
     structure |-> structure, change_type |-> change_type]

\* a variant that keeps one list, under good.py, for the records of all files
RecordInOneList(chg, file_path, change) ==
    IF GoodPy \in DOMAIN chg
    THEN [chg EXCEPT ![GoodPy] = Append(@, change)]
    ELSE chg @@ (GoodPy :> <<change>>)

\* changes[current_file].append(change), creating the list when missing
Record(chg, file_path, change) ==
    IF file_path \in DOMAIN chg
    THEN [chg EXCEPT ![file_path] = Append(@, change)]
    ELSE chg @@ (file_path :> <<change>>)

CountCall(calls, key) ==
    IF key = NoText THEN calls
    ELSE IF key \in DOMAIN calls THEN [calls EXCEPT ![key] = @ + 1]
    ELSE calls @@ (key :> 1)

\* ------------------------------------------------- the lines a diff is made of
\* A fed line is its text together with what the producer of the diff meant
\* by it (kind); the parser sees the text only.
Fed(kind, text) == [kind |-> kind, text |-> text]

OldHeader(prefix, p) ==
    [kind |-> "old", path |-> p, text |-> Minus3 \o <<" ">> \o prefix \o p]
NewHeader(prefix, p) ==
    [kind |-> "new", path |-> p, text |-> Plus3 \o <<" ">> \o prefix \o p]
\* @@ -a,x +b,y @@
HunkLine(a, x, b, y) ==
    [kind |-> "hunk", start_new |-> IntOf(b), decl_new |-> IntOf(y),
     text |-> <<"@", "@", " ", "-", a, ",", x, " ", "+", b, ",", y, " ", "@", "@">>]
\* @@ -a +b @@: a count left out stands for 1
ShortHunkLine(a, b) ==
    [kind |-> "hunk", start_new |-> IntOf(b), decl_new |-> 1,
     text |-> <<"@", "@", " ", "-", a, " ", "+", b, " ", "@", "@">>]

FileHeaders(files) ==
    {OldHeader(OLD_FILE_PREFIX, p) : p \in files}
    \cup {NewHeader(DIFF_FILE_PREFIX, p) : p \in files}

AddedContents == {<<"x">>, <<"x", " ">>, <<"+", "+", "i">>}
DeletedContents == {<<"x">>, <<"-", "-", "i">>}

\* the lines fed to study hunks: one file, two hunk headers, bodies of any text
HunkFedLines ==
    FileHeaders({GoodPy})
    \cup {HunkLine("1", "1", "1", "2"), HunkLine("2", "2", "3", "2")}
    \cup {Fed("other", <<"@", "@", " ", "-", "1", " ", "@", "@">>)}
    \cup {Fed("add", <<"+">> \o c) : c \in AddedContents}
    \cup {Fed("del", <<"-">> \o c) : c \in DeletedContents}
    \cup {Fed("ctx", <<" ", "x">>), Fed("marker", <<"\\", " ", "N">>),
          Fed("other", <<>>)}

\* the lines fed to study files: several files, one hunk header, plain bodies
FileFedLines ==
    FileHeaders({GoodPy, BadPy, FixedPy, NotesMd, NewPy})
    \cup {OldHeader(<<>>, DevNull), NewHeader(<<>>, DevNull)}
    \cup {ShortHunkLine("2", "2")}
    \cup {Fed("add", <<"+", "x">>), Fed("del", <<"-", "x">>)}

\* the lines of the scenario: its hunk header and plain body lines
ScenarioHeader == HunkLine("10", "3", "10", "4")
ScenarioFedLines ==
    {ScenarioHeader, Fed("ctx", <<" ", "x">>), Fed("del", <<"-", "x">>),
     Fed("add", <<"+", "x">>)}

\* the lines fed to study the listing: one file, one hunk header, plain bodies
ListingFedLines ==
    FileHeaders({GoodPy})
    \cup {HunkLine("3", "2", "4", "2")}
    \cup {Fed("add", <<"+", "x">>), Fed("del", <<"-", "x">>)}

\* ------------------------------------------ how analyze() reads a line
IsHeader(t) == StartsWith(t, Minus3) \/ StartsWith(t, Plus3)

IsAdded(t) == ~IsHeader(t) /\ ~StartsWith(t, At2) /\ StartsWith(t, <<"+">>)
IsDeleted(t) == ~IsHeader(t) /\ ~StartsWith(t, At2) /\ StartsWith(t, <<"-">>)
IsMarker(t) ==
    ~IsHeader(t) /\ ~StartsWith(t, At2) /\ ~StartsWith(t, <<"+">>)
    /\ ~StartsWith(t, <<"-">>) /\ StartsWith(t, <<"\\">>)
IsContext(t) ==
    ~IsHeader(t) /\ ~StartsWith(t, At2) /\ ~StartsWith(t, <<"+">>)
    /\ ~StartsWith(t, <<"-">>) /\ ~StartsWith(t, <<"\\">>)

\* the branch of the loop body that a line takes
ParsedKind(t) ==
    CASE StartsWith(t, Minus3) -> "old"
      [] ~StartsWith(t, Minus3) /\ StartsWith(t, Plus3) -> "new"
      [] ~IsHeader(t) /\ StartsWith(t, At2) ->
            IF HunkMatch(t).matched THEN "hunk" ELSE "badhunk"
      [] IsAdded(t) -> "add"
      [] IsDeleted(t) -> "del"
      [] IsMarker(t) -> "marker"
      [] IsContext(t) -> "ctx"

\* --------------------------------------------- the observer of the hunk
\* how far the lines fed follow the scenario `@@ -10,3 +10,4 @@`, context,
\* deletion, addition, context, context
Scenario == <<"hunk", "ctx", "del", "add", "ctx", "ctx">>
ScenNext(scen, t) ==
    IF t = ScenarioHeader.text THEN 1
    ELSE IF scen >= 1 /\ scen < Len(Scenario) /\ ParsedKind(t) = Scenario[scen + 1]
         THEN scen + 1
         ELSE 0

\* what the producer of the diff put into the hunk so far
Truth(h, l) ==
    CASE l.kind = "hunk" ->
            [h EXCEPT !.intact = TRUE, !.t_start = l.start_new,
                      !.decl_new = l.decl_new, !.t_new = 0]
      [] l.kind \in {"add", "ctx"} -> [h EXCEPT !.t_new = @ + 1]
      [] l.kind \in {"del", "marker"} -> h
      [] OTHER -> [h EXCEPT !.intact = FALSE]

Observe(h, l) ==
    [Truth(h, l) EXCEPT !.scen = ScenNext(h.scen, l.text),
                        !.named = IF l.kind \in {"old", "new"}
                                  THEN @ \cup {l.path} ELSE @,
                        !.pending = IF l.kind = "old" THEN l.path ELSE NoText,
                        !.pair = CASE l.kind = "old" -> NoText
                                   [] l.kind = "new" ->
                                        IF h.pending = l.path THEN l.path ELSE NoText
                                   [] OTHER -> @]

\* ------------------------------------------------------------- analyze()
MaxFed == 5             \* lines processed in one run, when hunks are studied
MaxFedFiles == 4        \* lines processed in one run, when files are studied
MaxFedScenario == 6     \* lines processed in one run of the scenario
MaxFedListing == 6      \* lines processed in one run, when the listing is studied

\* for line in diff_text.split('\n'):
Feed(l) ==
    /\ df_pc = "parsing"
    /\ fed' = fed + 1
    /\ line' = l.text
    /\ df_pc' = df_pc
    /\ UNCHANGED anVars

\* if line.startswith('---'): ... continue
OldFileHeader(l) ==
    /\ Feed(l)
    /\ StartsWith(l.text, Minus3)
    /\ LET stripped == Strip(SplitSecond(l.text, Minus3))
           file_path_old == IF StartsWith(stripped, OLD_FILE_PREFIX)
                            THEN SubSeq(stripped, Len(OLD_FILE_PREFIX) + 1, Len(stripped))
                            ELSE stripped
           old_content == get_old_file_content(file_path_old)
           got == get_or_create_analyzer(analyzers, file_path_old, old_content,
                                         OldKey(file_path_old))
       IN  /\ current_file_old' = file_path_old
           /\ IF ContentTruthy(old_content)
              THEN /\ current_analyzer_old' = got.ret
                   /\ analyzers' = got.cache
                   /\ parse_calls' = CountCall(parse_calls, got.parsed)
              ELSE /\ current_analyzer_old' = NoText
                   /\ UNCHANGED <<analyzers, parse_calls>>
    /\ hunk' = Observe(hunk, l)
    /\ UNCHANGED <<changes, current_file, current_line_new, current_line_old,
                   current_analyzer_new>>

\* a variant that hands the new analyzer to deletions whatever `---` obtained
NewFileHeaderAlwaysFallback(l) ==
    /\ Feed(l)
    /\ ~StartsWith(l.text, Minus3)
    /\ StartsWith(l.text, Plus3)
    /\ LET stripped == Strip(SplitSecond(l.text, Plus3))
           file_path == IF StartsWith(stripped, DIFF_FILE_PREFIX)
                        THEN SubSeq(stripped, Len(DIFF_FILE_PREFIX) + 1, Len(stripped))
                        ELSE stripped
           got == get_or_create_analyzer(analyzers, file_path, NoContent, NoText)
       IN  /\ current_file' = file_path
           /\ current_analyzer_new' = got.ret
           /\ analyzers' = got.cache
           /\ parse_calls' = CountCall(parse_calls, got.parsed)
           /\ current_analyzer_old' = got.ret
    /\ hunk' = Observe(hunk, l)
    /\ UNCHANGED <<changes, current_file_old, current_line_new, current_line_old>>

\* a variant that leaves deletions without analyzer when `---` obtained none
NewFileHeaderNoFallback(l) ==
    /\ Feed(l)
    /\ ~StartsWith(l.text, Minus3)
    /\ StartsWith(l.text, Plus3)
    /\ LET stripped == Strip(SplitSecond(l.text, Plus3))
           file_path == IF StartsWith(stripped, DIFF_FILE_PREFIX)
                        THEN SubSeq(stripped, Len(DIFF_FILE_PREFIX) + 1, Len(stripped))
                        ELSE stripped
           got == get_or_create_analyzer(analyzers, file_path, NoContent, NoText)
       IN  /\ current_file' = file_path
           /\ current_analyzer_new' = got.ret
           /\ analyzers' = got.cache
           /\ parse_calls' = CountCall(parse_calls, got.parsed)
           /\ current_analyzer_old' = current_analyzer_old
    /\ hunk' = Observe(hunk, l)
    /\ UNCHANGED <<changes, current_file_old, current_line_new, current_line_old>>

\* if line.startswith('+++'): ... continue
NewFileHeader(l) ==
    /\ Feed(l)
    /\ ~StartsWith(l.text, Minus3)
    /\ StartsWith(l.text, Plus3)
    /\ LET stripped == Strip(SplitSecond(l.text, Plus3))
           file_path == IF StartsWith(stripped, DIFF_FILE_PREFIX)
                        THEN SubSeq(stripped, Len(DIFF_FILE_PREFIX) + 1, Len(stripped))
                        ELSE stripped
           got == get_or_create_analyzer(analyzers, file_path, NoContent, NoText)
       IN  /\ current_file' = file_path
           /\ current_analyzer_new' = got.ret
           /\ analyzers' = got.cache
           /\ parse_calls' = CountCall(parse_calls, got.parsed)
           /\ current_analyzer_old' =
                 IF current_analyzer_old = NoText /\ Truthy(current_file_old)
                 THEN got.ret
                 ELSE current_analyzer_old
    /\ hunk' = Observe(hunk, l)
    /\ UNCHANGED <<changes, current_file_old, current_line_new, current_line_old>>

\* a variant that takes a header it cannot read for the start of a hunk at
\* line 0
HunkHeaderResets(l) ==
    /\ Feed(l)
    /\ ~IsHeader(l.text)
    /\ StartsWith(l.text, At2)
    /\ LET match == HunkMatch(l.text)
       IN  /\ current_line_old' = match.old
           /\ current_line_new' = match.new
           /\ hunk' = IF match.matched
                      THEN [Observe(hunk, l) EXCEPT !.open = TRUE,
                               !.old = match.old, !.new = match.new,
                               !.ctx = 0, !.add = 0, !.del = 0]
                      ELSE Observe(hunk, l)
    /\ UNCHANGED <<analyzers, changes, current_file, current_file_old,
                   current_analyzer_new, current_analyzer_old, parse_calls>>

\* if line.startswith('@@'): ... continue
HunkHeader(l) ==
    /\ Feed(l)
    /\ ~IsHeader(l.text)
    /\ StartsWith(l.text, At2)
    /\ LET match == HunkMatch(l.text)
       IN  IF match.matched
           THEN /\ current_line_old' = match.old
                /\ current_line_new' = match.new
                /\ hunk' = [Observe(hunk, l) EXCEPT !.open = TRUE,
                               !.old = match.old, !.new = match.new,
                               !.ctx = 0, !.add = 0, !.del = 0]
           ELSE /\ UNCHANGED <<current_line_old, current_line_new>>
                /\ hunk' = Observe(hunk, l)
    /\ UNCHANGED <<analyzers, changes, current_file, current_file_old,
                   current_analyzer_new, current_analyzer_old, parse_calls>>

\* if line.startswith('+') and not line.startswith('+++'):
AddedLine(l) ==
    /\ Feed(l)
    /\ IsAdded(l.text)
    /\ IF Truthy(current_file) /\ current_analyzer_new # NoText
       THEN changes' = Record(changes, current_file,
               DiffChange(current_file, current_line_new, Tail(l.text),
                             StructureAt(analyzers, current_analyzer_new,
                                         current_line_new), "+"))
       ELSE UNCHANGED changes
    /\ current_line_new' = current_line_new + 1
    /\ hunk' = [Observe(hunk, l) EXCEPT !.add = @ + 1]
    /\ UNCHANGED <<analyzers, current_file, current_file_old, current_line_old,
                   current_analyzer_new, current_analyzer_old, parse_calls>>

\* a variant that records a deletion and leaves the old-line counter alone
DeletedLineNoAdvance(l) ==
    /\ Feed(l)
    /\ IsDeleted(l.text)
    /\ IF Truthy(current_file) /\ current_analyzer_old # NoText
       THEN changes' = Record(changes, current_file,
               DiffChange(current_file, current_line_old, Tail(l.text),
                             StructureAt(analyzers, current_analyzer_old,
                                         current_line_old), "-"))
       ELSE UNCHANGED changes
    /\ hunk' = [Observe(hunk, l) EXCEPT !.del = @ + 1]
    /\ UNCHANGED <<analyzers, current_file, current_file_old, current_line_new,
                   current_line_old, current_analyzer_new, current_analyzer_old,
                   parse_calls>>

\* elif line.startswith('-') and not line.startswith('---'):
DeletedLine(l) ==
    /\ Feed(l)
    /\ IsDeleted(l.text)
    /\ IF Truthy(current_file) /\ current_analyzer_old # NoText
       THEN changes' = Record(changes, current_file,
               DiffChange(current_file, current_line_old, Tail(l.text),
                             StructureAt(analyzers, current_analyzer_old,
                                         current_line_old), "-"))
       ELSE UNCHANGED changes
    /\ current_line_old' = current_line_old + 1
    /\ hunk' = [Observe(hunk, l) EXCEPT !.del = @ + 1]
    /\ UNCHANGED <<analyzers, current_file, current_file_old, current_line_new,
                   current_analyzer_new, current_analyzer_old, parse_calls>>

\* a variant in which a context line advances the new-line counter only
ContextLineNewOnly(l) ==
    /\ Feed(l)
    /\ IsContext(l.text)
    /\ current_line_new' = current_line_new + 1
    /\ hunk' = [Observe(hunk, l) EXCEPT !.ctx = @ + 1]
    /\ UNCHANGED <<analyzers, changes, current_file, current_file_old,
                   current_line_old, current_analyzer_new, current_analyzer_old,
                   parse_calls>>

\* elif not line.startswith('\\'):
ContextLine(l) ==
    /\ Feed(l)
    /\ IsContext(l.text)
    /\ current_line_new' = current_line_new + 1
    /\ current_line_old' = current_line_old + 1
    /\ hunk' = [Observe(hunk, l) EXCEPT !.ctx = @ + 1]
    /\ UNCHANGED <<analyzers, changes, current_file, current_file_old,
                   current_analyzer_new, current_analyzer_old, parse_calls>>

\* a line starting with a backslash falls through every branch
MarkerLine(l) ==
    /\ Feed(l)
    /\ IsMarker(l.text)
    /\ hunk' = Observe(hunk, l)
    /\ UNCHANGED <<analyzers, changes, current_file, current_file_old,
                   current_line_new, current_line_old, current_analyzer_new,
                   current_analyzer_old, parse_calls>>

\* =========================================================== ResultPrinter
\* CodeStructure.get_full_path of structure ix among structs, word by word:
\* the parts from the outermost ancestor to the structure, joined by " > "
RECURSIVE PathParts(_, _)
PathParts(structs, ix) ==
    IF ix = None THEN <<>>
    ELSE <<structs[ix].modifiers \o <<structs[ix].type, structs[ix].name>>>>
         \o PathParts(structs, structs[ix].parent)

Reversed(q) == [k \in 1..Len(q) |-> q[Len(q) + 1 - k]]

RECURSIVE Join(_, _)
Join(parts, sep) ==
    IF parts = <<>> THEN <<>>
    ELSE IF Len(parts) = 1 THEN parts[1]
    ELSE parts[1] \o sep \o Join(Tail(parts), sep)

get_full_path(structs, ix) == Join(Reversed(PathParts(structs, ix)), <<">">>)

\* the key under which _print_file_changes groups a change
UnknownStructure == <<"unknown", "structure">>
GroupKey(cache, c) ==
    IF c.structure.ix # None
    THEN get_full_path(cache[c.structure.an].structures, c.structure.ix)
    ELSE UnknownStructure

\* by_structure[key]
Group(cache, chgs, key) == SelectSeq(chgs, LAMBDA c : GroupKey(cache, c) = key)

\* change_map[line_num]: sorted() by line number is stable, so the changes of
\* one line number keep the order of the group
ChangesAtLine(struct_changes, line_num) ==
    SelectSeq(struct_changes, LAMBDA c : c.line_num = line_num)

SameAfterRStrip(a, b) == RStrip(a) = RStrip(b)

\* a variant that compares the two contents as they are
PrintedAtLineExact(changes_at_line) ==
    IF /\ Len(changes_at_line) = 2
       /\ "+" \in {changes_at_line[k].change_type : k \in 1..2}
       /\ "-" \in {changes_at_line[k].change_type : k \in 1..2}
       /\ changes_at_line[1].content = changes_at_line[2].content
    THEN << [sign |-> " ", content |-> RStrip(changes_at_line[1].content)] >>
    ELSE [k \in 1..Len(changes_at_line) |->
             [sign |-> changes_at_line[k].change_type,
              content |-> RStrip(changes_at_line[k].content)]]

\* what the loop over sorted_lines prints for a changed line of a group:
\* one unsigned line when a '+' and a '-' carry the same content, else one
\* signed line per change
PrintedAtLine(changes_at_line) ==
    IF /\ Len(changes_at_line) = 2
       /\ "+" \in {changes_at_line[k].change_type : k \in 1..2}
       /\ "-" \in {changes_at_line[k].change_type : k \in 1..2}
       /\ SameAfterRStrip(changes_at_line[1].content, changes_at_line[2].content)
    THEN << [sign |-> " ", content |-> RStrip(changes_at_line[1].content)] >>
    ELSE [k \in 1..Len(changes_at_line) |->
             [sign |-> changes_at_line[k].change_type,
              content |-> RStrip(changes_at_line[k].content)]]

\* the words of the group keys in the order in which Python compares strings
\* (by code point: '>' before the capitals, the capitals before the small
\* letters); the blank that joins the words of a key is below all of them
CodePointOrder ==
    <<">", "Order", "class", "f", "function", "helper", "method", "structure",
      "total", "unknown">>

\* struct_path < other, as sorted(by_structure.items()) compares the keys
RECURSIVE StrLess(_, _)
StrLess(a, b) ==
    LET rank(w) == CHOOSE k \in 1..Len(CodePointOrder) : CodePointOrder[k] = w
    IN  IF b = <<>> THEN FALSE
        ELSE IF a = <<>> THEN TRUE
        ELSE IF Head(a) = Head(b) THEN StrLess(Tail(a), Tail(b))
        ELSE rank(Head(a)) < rank(Head(b))

\* the keys of sorted(by_structure.items()): no two items share their key,
\* so the lists of changes are never compared
RECURSIVE SortedKeys(_)
SortedKeys(keys) ==
    IF keys = {} THEN <<>>
    ELSE LET least == CHOOSE x \in keys : \A y \in keys \ {x} : StrLess(x, y)
         IN  <<least>> \o SortedKeys(keys \ {least})

\* a variant that displays the changes of a group as they were met
SortedChangesAsMet(struct_changes) == struct_changes

\* sorted(struct_changes, key=lambda c: c.line_num): a stable sort, each change
\* going behind those already placed whose line number is not greater
RECURSIVE sorted_changes(_)
sorted_changes(struct_changes) ==
    IF struct_changes = <<>> THEN <<>>
    ELSE LET c == struct_changes[Len(struct_changes)]
             placed == sorted_changes(SubSeq(struct_changes, 1, Len(struct_changes) - 1))
             k == Cardinality({i \in 1..Len(placed) : placed[i].line_num <= c.line_num})
         IN  SubSeq(placed, 1, k) \o <<c>> \o SubSeq(placed, k + 1, Len(placed))

\* the groups of a file in the order of their display, each with its changes
\* in the order of their display
Listing(cache, chgs) ==
    LET keys == SortedKeys({GroupKey(cache, chgs[k]) : k \in 1..Len(chgs)})
    IN  [k \in 1..Len(keys) |->
            [struct_path |-> keys[k],
             sorted_changes |-> sorted_changes(Group(cache, chgs, keys[k]))]]

IdleAnalyzer ==
    /\ structures = <<>>
    /\ line_map = EmptyMap
    /\ an_pc = "idle"
    /\ query = 0
    /\ result = None
    /\ self_content = NoText
    /\ end_writes = <<>>

Init == InitDiff /\ IdleAnalyzer

Next ==
    \/ \E l \in HunkFedLines : fed < MaxFed /\ OldFileHeader(l)
    \/ \E l \in HunkFedLines : fed < MaxFed /\ NewFileHeader(l)
    \/ \E l \in HunkFedLines : fed < MaxFed /\ HunkHeader(l)
    \/ \E l \in HunkFedLines : fed < MaxFed /\ AddedLine(l)
    \/ \E l \in HunkFedLines : fed < MaxFed /\ DeletedLine(l)
    \/ \E l \in HunkFedLines : fed < MaxFed /\ ContextLine(l)
    \/ \E l \in HunkFedLines : fed < MaxFed /\ MarkerLine(l)

Spec == Init /\ [][Next]_vars

NextFiles ==
    \/ \E l \in FileFedLines : fed < MaxFedFiles /\ OldFileHeader(l)
    \/ \E l \in FileFedLines : fed < MaxFedFiles /\ NewFileHeader(l)
    \/ \E l \in FileFedLines : fed < MaxFedFiles /\ HunkHeader(l)
    \/ \E l \in FileFedLines : fed < MaxFedFiles /\ AddedLine(l)
    \/ \E l \in FileFedLines : fed < MaxFedFiles /\ DeletedLine(l)

SpecFiles == Init /\ [][NextFiles]_vars

NextScenario ==
    \/ \E l \in ScenarioFedLines : fed < MaxFedScenario /\ HunkHeader(l)
    \/ \E l \in ScenarioFedLines : fed < MaxFedScenario /\ AddedLine(l)
    \/ \E l \in ScenarioFedLines : fed < MaxFedScenario /\ DeletedLine(l)
    \/ \E l \in ScenarioFedLines : fed < MaxFedScenario /\ ContextLine(l)

SpecScenario == Init /\ [][NextScenario]_vars

NextListing ==
    \/ \E l \in ListingFedLines : fed < MaxFedListing /\ OldFileHeader(l)
    \/ \E l \in ListingFedLines : fed < MaxFedListing /\ NewFileHeader(l)
    \/ \E l \in ListingFedLines : fed < MaxFedListing /\ HunkHeader(l)
    \/ \E l \in ListingFedLines : fed < MaxFedListing /\ AddedLine(l)
    \/ \E l \in ListingFedLines : fed < MaxFedListing /\ DeletedLine(l)

SpecListing == Init /\ [][NextListing]_vars

\* ========================================================== PythonAnalyzer
\* A Python source is described by the nesting of its compound statements,
\* outermost first. Every suite is `pass`, the next compound statement of
\* the nesting (when there is one), `pass`:
\*   "class"    class <Name>:                    + suite
\*   "def"      def <name>(self):                + suite
\*   "decodef"  @functools.wraps / @staticmethod / def <name>(): + suite
\*   "if"       if c:                            + suite
\*   "else"     if c: / pass / else:             + suite
MaxDepth == 3       \* compound statements nested in a drawn Python source

Compound == {"class", "def", "decodef", "if", "else"}
PySources == SeqsUpTo(Compound, MaxDepth) \ {<<>>}

ClassNames == <<"Order", "Item", "Part", "Unit", "Cell">>
DefNames == <<"main", "total", "inner", "leaf", "tip">>

\* ---- the tree ast.parse() returns: nodes with the fields the visitor reads
Node(kind, name, lineno, end_lineno, body, orelse, decorator_list) ==
    [kind |-> kind, name |-> name, lineno |-> lineno, end_lineno |-> end_lineno,
     body |-> body, orelse |-> orelse, decorator_list |-> decorator_list]

PassStmt(l) == Node("Pass", "", l, l, <<>>, <<>>, <<>>)

Decorators ==
    << [kind |-> "Attribute", id |-> "wraps"], [kind |-> "Name", id |-> "staticmethod"] >>

RECURSIVE Stmt(_, _, _)
\* the suite that starts at line l and holds the statements nested from i on
Suite(nesting, i, l) ==
    IF i > Len(nesting) THEN << PassStmt(l) >>
    ELSE LET inner == Stmt(nesting, i, l + 1)
         IN  << PassStmt(l), inner, PassStmt(inner.end_lineno + 1) >>

\* the compound statement nesting[i] whose first line (its first decorator,
\* when it has one) is line l
Stmt(nesting, i, l) ==
    LET k == nesting[i]
    IN  CASE k = "class" ->
                LET body == Suite(nesting, i + 1, l + 1)
                IN  Node("ClassDef", ClassNames[i], l, body[Len(body)].end_lineno,
                         body, <<>>, <<>>)
          [] k = "def" ->
                LET body == Suite(nesting, i + 1, l + 1)
                IN  Node("FunctionDef", DefNames[i], l, body[Len(body)].end_lineno,
                         body, <<>>, <<>>)
          [] k = "decodef" ->
                LET body == Suite(nesting, i + 1, l + Len(Decorators) + 1)
                IN  Node("FunctionDef", DefNames[i], l + Len(Decorators),
                         body[Len(body)].end_lineno, body, <<>>, Decorators)
          [] k = "if" ->
                LET body == Suite(nesting, i + 1, l + 1)
                IN  Node("If", "", l, body[Len(body)].end_lineno, body, <<>>, <<>>)
          [] k = "else" ->
                LET orelse == Suite(nesting, i + 1, l + 3)
                IN  Node("If", "", l, orelse[Len(orelse)].end_lineno,
                         << PassStmt(l + 1) >>, orelse, <<>>)

\* ast.parse(self.content)
ast_parse(nesting) ==
    LET body == Suite(nesting, 1, 1)
    IN  Node("Module", "", None, None, body, <<>>, <<>>)

LastLine(nesting) ==
    LET body == ast_parse(nesting).body IN body[Len(body)].end_lineno

\* ---- PythonAnalyzer._get_decorators
RECURSIVE DecoratorNames(_)
DecoratorNames(decorator_list) ==
    IF decorator_list = <<>> THEN <<>>
    ELSE (IF Head(decorator_list).kind = "Name"
          THEN << "@" \o Head(decorator_list).id >>
          ELSE <<>>) \o DecoratorNames(Tail(decorator_list))

HasDecoratorList(node) == node.kind \in {"ClassDef", "FunctionDef"}

get_decorators(node) ==
    IF HasDecoratorList(node) THEN DecoratorNames(node.decorator_list) ELSE <<>>

\* hasattr(node, 'body')
HasBody(node) == node.kind \in {"Module", "If", "ClassDef", "FunctionDef"}

\* ---- PythonAnalyzer._visit_node: the list self.structures after the visit
\* of node, started on the list structs; parent is a position in the list
RECURSIVE visit_node(_, _, _)
RECURSIVE VisitBody(_, _, _, _)
VisitBody(body, k, parent, structs) ==
    IF k > Len(body) THEN structs
    ELSE VisitBody(body, k + 1, parent, visit_node(body[k], parent, structs))

visit_node(node, parent, structs) ==
    IF node.kind = "ClassDef"
    THEN LET struct == CodeStructure(node.name, "class", node.lineno,
                          IF node.end_lineno # None THEN node.end_lineno
                          ELSE node.lineno,
                          parent, get_decorators(node))
         IN  VisitBody(node.body, 1, Len(structs) + 1, Append(structs, struct))
    ELSE IF node.kind = "FunctionDef"
    THEN LET func_type == IF parent # None /\ structs[parent].type = "class"
                          THEN "method" ELSE "function"
             struct == CodeStructure(node.name, func_type, node.lineno,
                          IF node.end_lineno # None THEN node.end_lineno
                          ELSE node.lineno,
                          parent, get_decorators(node))
         IN  VisitBody(node.body, 1, Len(structs) + 1, Append(structs, struct))
    ELSE IF HasBody(node)
    THEN VisitBody(node.body, 1, parent, structs)
    ELSE structs

\* ---- one PythonAnalyzer on a drawn source
InitPy ==
    /\ IdleDiff
    /\ self_content \in PySources
    /\ end_writes = <<>>
    /\ structures = <<>>
    /\ line_map = EmptyMap
    /\ an_pc = "created"
    /\ query = 0
    /\ result = None

\* PythonAnalyzer.parse(), on a source that is syntactically correct
PythonParse ==
    /\ an_pc = "created"
    /\ LET tree == ast_parse(self_content)
           extracted == visit_node(tree, None, structures)
       IN  /\ structures' = extracted
           /\ end_writes' = [i \in 1..Len(extracted) |-> 0]
           /\ line_map' = build_line_map(extracted, line_map)
    /\ an_pc' = "built"
    /\ UNCHANGED <<query, result, self_content>>
    /\ UNCHANGED dfVars

LookupPy == LookupIn(1..(LastLine(self_content) + 1))

NextPy == PythonParse \/ LookupPy

SpecPy == InitPy /\ [][NextPy]_vars

\* ============================================================ JavaAnalyzer
DEFAULT_METHOD_LINES == 50
FALLBACK_END_LINE_ESTIMATE == 100

\* A Java source is a list of lines, a line a list of lexemes; the characters
\* of a lexeme are what the brace scan reads. One line, the start line, holds
\* a method declaration: "decl" (`int f()`), "open" (its opening brace), the
\* lexemes of its body, "close" (the matching closing brace).
Chars(lexeme) ==
    CASE lexeme = "decl" -> <<"f">>
      [] lexeme = "open" -> <<"{">>
      [] lexeme = "close" -> <<"}">>
      [] lexeme = "lbrace" -> <<"{">>                   \* a brace of another declaration
      [] lexeme = "rbrace" -> <<"}">>
      [] lexeme = "stmt" -> <<"x">>                     \* return 1;
      [] lexeme = "semi" -> <<";">>                     \* the end of `void f();`
      [] lexeme = "block" -> <<"{", "}">>               \* an empty inner block
      [] lexeme = "str_brace" -> <<"\"", "{", "\"">>    \* the string literal "{"
      [] lexeme = "str_quote" -> <<"\"", "\\", "\"", "}", "\"">>    \* "\"}"
      [] lexeme = "str_backslash" -> <<"\"", "\\", "\\", "\"">>     \* "\\"
      [] lexeme = "chr_brace" -> <<"'", "{", "'">>      \* the char literal '{'
      [] lexeme = "chr_rbrace" -> <<"'", "}", "'">>     \* the char literal '}'
      [] lexeme = "chr_quote" -> <<"'", "\"", "'">>     \* the char literal '"'
      [] lexeme = "cmt_brace" -> <<"/", "*", "{", "*", "/">>        \* /*{*/
      [] lexeme = "line_cmt" -> <<"/", "/", "}">>       \* // }
      [] lexeme = "uni_nl" -> <<"/", "/", "\\", "u", "0", "0", "0", "a">>   \* //\u000a

RECURSIVE LineChars(_)
LineChars(lexemes) ==
    IF lexemes = <<>> THEN <<>>
    ELSE Chars(Head(lexemes)) \o LineChars(Tail(lexemes))

\* self.content.split('\n'), each line as its characters
SplitLines(java) == [k \in 1..Len(java) |-> LineChars(java[k])]

MaxBody == 2        \* lexemes in the body of the one-line method

BodyLexemes ==
    {"stmt", "block", "str_brace", "str_quote", "str_backslash", "chr_brace",
     "chr_quote", "cmt_brace"}
Bodies == SeqsUpTo(BodyLexemes, MaxBody)

Method(body) == <<"decl", "open">> \o body \o <<"close">>

\* the sources drawn: the one-line method as a member of a class, alone on
\* its line or sharing it with a brace of the class or of the method before
JavaSources ==
    UNION {
        { << <<"lbrace">>, Method(b), <<"rbrace">> >>,
          << <<"lbrace">>, Method(b) \o <<"line_cmt">>, <<"rbrace">> >>,
          << <<"lbrace">>, Method(b) \o <<"rbrace">> >>,
          << <<"lbrace">> \o Method(b), <<"rbrace">> >>,
          << <<"lbrace">> \o Method(b) \o <<"rbrace">> >>,
          << <<"lbrace">>, <<"decl", "lbrace">>,
             <<"rbrace">> \o Method(b), <<"rbrace">> >> }
        : b \in Bodies }

\* node.position.line of the method: the line of its declaration
PositionLine(java) ==
    CHOOSE k \in 1..Len(java) :
        \E p \in 1..(Len(java[k]) - 1) : java[k][p] = "decl" /\ java[k][p + 1] = "open"

Min(a, b) == IF a <= b THEN a ELSE b

\* a variant of the loop that counts the braces of string literals too
RECURSIVE ScanLineNoStrings(_, _, _, _, _)
ScanLineNoStrings(chars, j, in_string, brace_count, found_start) ==
    IF j > Len(chars)
    THEN [closed |-> FALSE, brace_count |-> brace_count, found_start |-> found_start]
    ELSE LET char == chars[j]
         IN  IF char = "/" /\ j + 1 <= Len(chars) /\ chars[j + 1] = "/"
             THEN [closed |-> FALSE, brace_count |-> brace_count,
                   found_start |-> found_start]
             ELSE IF char = "{"
             THEN ScanLineNoStrings(chars, j + 1, in_string, brace_count + 1, TRUE)
             ELSE IF char = "}"
             THEN IF found_start /\ brace_count - 1 = 0
                  THEN [closed |-> TRUE, brace_count |-> 0, found_start |-> TRUE]
                  ELSE ScanLineNoStrings(chars, j + 1, in_string, brace_count - 1,
                                         found_start)
             ELSE ScanLineNoStrings(chars, j + 1, in_string, brace_count, found_start)

\* a variant of the loop in which every double quote toggles the flag
RECURSIVE ScanLineEveryQuote(_, _, _, _, _)
ScanLineEveryQuote(chars, j, in_string, brace_count, found_start) ==
    IF j > Len(chars)
    THEN [closed |-> FALSE, brace_count |-> brace_count, found_start |-> found_start]
    ELSE LET char == chars[j]
             toggled == IF char = "\"" THEN ~in_string ELSE in_string
         IN  IF toggled
             THEN ScanLineEveryQuote(chars, j + 1, toggled, brace_count, found_start)
             ELSE IF char = "/" /\ j + 1 <= Len(chars) /\ chars[j + 1] = "/"
             THEN [closed |-> FALSE, brace_count |-> brace_count,
                   found_start |-> found_start]
             ELSE IF char = "{"
             THEN ScanLineEveryQuote(chars, j + 1, toggled, brace_count + 1, TRUE)
             ELSE IF char = "}"
             THEN IF found_start /\ brace_count - 1 = 0
                  THEN [closed |-> TRUE, brace_count |-> 0, found_start |-> TRUE]
                  ELSE ScanLineEveryQuote(chars, j + 1, toggled, brace_count - 1,
                                          found_start)
             ELSE ScanLineEveryQuote(chars, j + 1, toggled, brace_count, found_start)

\* ---- JavaAnalyzer._update_structure_end_line
\* the loop over the characters of one line, from character j on:
\* closed when the matching brace was found on this line
RECURSIVE ScanLine(_, _, _, _, _)
ScanLine(chars, j, in_string, brace_count, found_start) ==
    IF j > Len(chars)
    THEN [closed |-> FALSE, brace_count |-> brace_count, found_start |-> found_start]
    ELSE LET char == chars[j]
             toggled == IF char = "\"" /\ (j = 1 \/ chars[j - 1] # "\\")
                        THEN ~in_string ELSE in_string
         IN  IF toggled
             THEN ScanLine(chars, j + 1, toggled, brace_count, found_start)
             ELSE IF char = "/" /\ j + 1 <= Len(chars) /\ chars[j + 1] = "/"
             THEN [closed |-> FALSE, brace_count |-> brace_count,
                   found_start |-> found_start]
             ELSE IF char = "{"
             THEN ScanLine(chars, j + 1, toggled, brace_count + 1, TRUE)
             ELSE IF char = "}"
             THEN IF found_start /\ brace_count - 1 = 0
                  THEN [closed |-> TRUE, brace_count |-> 0, found_start |-> TRUE]
                  ELSE ScanLine(chars, j + 1, toggled, brace_count - 1, found_start)
             ELSE ScanLine(chars, j + 1, toggled, brace_count, found_start)

\* a variant of the loop whose fallback is not clamped to the last line
RECURSIVE ScanLinesUnclamped(_, _, _, _, _)
ScanLinesUnclamped(lines, i, brace_count, found_start, start_line) ==
    IF i > Len(lines)
    THEN [end_line |-> start_line + FALLBACK_END_LINE_ESTIMATE, fallback |-> TRUE]
    ELSE LET scanned == ScanLine(lines[i], 1, FALSE, brace_count, found_start)
         IN  IF scanned.closed
             THEN [end_line |-> i, fallback |-> FALSE]
             ELSE ScanLinesUnclamped(lines, i + 1, scanned.brace_count,
                                     scanned.found_start, start_line)

\* the loop over the lines, from line i on (1-based)
RECURSIVE ScanLines(_, _, _, _, _)
ScanLines(lines, i, brace_count, found_start, start_line) ==
    IF i > Len(lines)
    THEN [end_line |-> Min(start_line + FALLBACK_END_LINE_ESTIMATE, Len(lines)),
          fallback |-> TRUE]
    ELSE LET scanned == ScanLine(lines[i], 1, FALSE, brace_count, found_start)
         IN  IF scanned.closed
             THEN [end_line |-> i, fallback |-> FALSE]
             ELSE ScanLines(lines, i + 1, scanned.brace_count,
                            scanned.found_start, start_line)

\* the end line the scan gives a structure that starts at start_line, and
\* whether it is the fallback estimate
BraceScan(lines, start_line) ==
    IF start_line - 1 >= Len(lines)
    THEN [end_line |-> Min(start_line + FALLBACK_END_LINE_ESTIMATE, Len(lines)),
          fallback |-> TRUE]
    ELSE ScanLines(lines, start_line, 0, FALSE, start_line)

update_structure_end_line(java, struct) ==
    [struct EXCEPT !.end_line = BraceScan(SplitLines(java), struct.start_line).end_line]

\* ---- one JavaAnalyzer on a drawn source
InitJava ==
    /\ IdleDiff
    /\ self_content \in JavaSources
    /\ end_writes = <<>>
    /\ structures = <<>>
    /\ line_map = EmptyMap
    /\ an_pc = "created"
    /\ query = 0
    /\ result = None

\* JavaAnalyzer._process_method for the method of the source
ProcessMethod ==
    /\ an_pc = "created"
    /\ LET method_struct ==
               CodeStructure("f", "method", PositionLine(self_content),
                             PositionLine(self_content) + DEFAULT_METHOD_LINES,
                             None, <<>>)
       IN  structures' = Append(structures,
                                update_structure_end_line(self_content, method_struct))
    /\ end_writes' = Append(end_writes, 1)
    /\ an_pc' = "extracted"
    /\ UNCHANGED <<line_map, query, result, self_content>>
    /\ UNCHANGED dfVars

NextJava == ProcessMethod \/ BuildLineMap

SpecJava == InitJava /\ [][NextJava]_vars

\* ---- a class with a method of several lines
DEFAULT_CLASS_LINES == 1000

MaxBodyLines == 2   \* lines between the two braces of the drawn method

\* the lines a method body is drawn from, each balanced as Java reads it
BodyLines ==
    { <<"stmt">>, <<"block">>, <<"str_brace">>, <<"chr_brace">>, <<"chr_rbrace">>,
      <<"stmt", "line_cmt">> }

\* class A { / int f() { / ...body... / } / [ int g() { / } ] / }
\* with or without a newline after the last brace: split('\n') then gives
\* an empty last line
JavaFiles ==
    UNION {
        { << <<"lbrace">>, <<"decl", "open">> >> \o b
             \o << <<"close">>, <<"rbrace">> >>,
          << <<"lbrace">>, <<"decl", "open">> >> \o b
             \o << <<"close">>, <<"rbrace">>, <<>> >>,
          << <<"lbrace">>, <<"decl", "open">> >> \o b
             \o << <<"close">>, <<"decl", "lbrace">>, <<"rbrace">>, <<"rbrace">> >> }
        : b \in SeqsUpTo(BodyLines, MaxBodyLines) }
    \cup
    \* a first line `//\u000a`: a comment that the Unicode escape of a line
    \* feed ends, which the parser counts as a line break and split('\n') not
    { << <<"uni_nl">>, <<"lbrace", "decl", "open", "close", "rbrace">> >>,
      << <<"uni_nl">>, <<"lbrace">>, <<"decl", "open", "close">>, <<"rbrace">> >> }

\* the line number the parser gives to what stands on line k of the split
\* content: it reads the escape \u000a as a line terminator
ParserLine(java, k) ==
    k + Cardinality({i \in 1..(k - 1) :
                        \E p \in 1..Len(java[i]) : java[i][p] = "uni_nl"})

\* node.position.line of the class and of its methods (node.methods)
ClassLine(java) ==
    LET opens == {k \in 1..Len(java) : java[k] # <<>> /\ java[k][1] = "lbrace"}
    IN  ParserLine(java, CHOOSE k \in opens : \A m \in opens : k <= m)
MethodLines(java) ==
    {ParserLine(java, k) : k \in {i \in 1..Len(java) :
                                    \E p \in 1..Len(java[i]) : java[i][p] = "decl"}}

RECURSIVE SortedLines(_)
SortedLines(S) ==
    IF S = {} THEN <<>>
    ELSE LET first == CHOOSE k \in S : \A m \in S : k <= m
         IN  <<first>> \o SortedLines(S \ {first})

\* JavaAnalyzer._process_method for the methods at the given lines, in turn
RECURSIVE ProcessMethods(_, _, _, _)
ProcessMethods(java, method_lines, parent, structs) ==
    IF method_lines = <<>> THEN structs
    ELSE LET method_struct ==
                 CodeStructure("f", "method", Head(method_lines),
                               Head(method_lines) + DEFAULT_METHOD_LINES,
                               parent, <<>>)
         IN  ProcessMethods(java, Tail(method_lines), parent,
                 Append(structs, update_structure_end_line(java, method_struct)))

InitBrace ==
    /\ IdleDiff
    /\ self_content \in JavaFiles
    /\ end_writes = <<>>
    /\ structures = <<>>
    /\ line_map = EmptyMap
    /\ an_pc = "created"
    /\ query = 0
    /\ result = None

\* JavaAnalyzer._process_class for the class of the source:
\* the class is appended, its methods are processed, its end line is updated
ProcessClass ==
    /\ an_pc = "created"
    /\ LET class_struct == CodeStructure("A", "class", ClassLine(self_content),
                                         ClassLine(self_content) + DEFAULT_CLASS_LINES,
                                         None, <<>>)
           appended == Append(structures, class_struct)
           parent == Len(appended)
           processed == ProcessMethods(self_content,
                                       SortedLines(MethodLines(self_content)),
                                       parent, appended)
       IN  /\ structures' =
                 [processed EXCEPT ![parent] =
                     update_structure_end_line(self_content, processed[parent])]
           /\ end_writes' = [i \in 1..Len(processed) |-> 1]
    /\ an_pc' = "extracted"
    /\ UNCHANGED <<line_map, query, result, self_content>>
    /\ UNCHANGED dfVars

NextBrace == ProcessClass \/ BuildLineMap

SpecBrace == InitBrace /\ [][NextBrace]_vars

\* ---- a compilation unit of nested type declarations
DEFAULT_INTERFACE_LINES == 1000

MaxNest == 3        \* type declarations nested in a drawn compilation unit

\* A unit is a chain of type declarations, each nested in the one before it:
\* a class named A, B or C or an interface I, with no method, one method with a
\* body (`void f() { }`) or one without (`void f();`), declared before the
\* nested type.
JavaUnits ==
    SeqsUpTo({[kind |-> t[1], name |-> t[2], member |-> m] :
                 t \in {<<"class", "A">>, <<"class", "B">>, <<"class", "C">>,
                       <<"interface", "I">>},
                 m \in {"none", "body", "abstract"}},
             MaxNest) \ {<<>>}

\* node.position.line of type k of the unit; its method stands on the next line
TypeLine(unit, k) ==
    k + Cardinality({j \in 1..(k - 1) : unit[j].member # "none"})

\* the text of the unit: per type its header line and the line of its method,
\* then the closing braces, innermost first, and a final newline
Layout(unit) ==
    LET n == Len(unit)
        heads == TypeLine(unit, n) + (IF unit[n].member # "none" THEN 1 ELSE 0)
    IN  [l \in 1..(heads + n + 1) |->
            IF l > heads + n THEN <<>>
            ELSE IF l > heads THEN <<"rbrace">>
            ELSE IF \E k \in 1..n : TypeLine(unit, k) = l THEN <<"lbrace">>
            ELSE LET k == CHOOSE k \in 1..n : TypeLine(unit, k) + 1 = l
                 IN  IF unit[k].member = "body"
                     THEN <<"decl", "open", "close">>
                     ELSE <<"decl", "semi">>]

\* a variant in which the end line of a type is updated a second time
RECURSIVE PlanEndsTwice(_, _)
PlanEndsTwice(unit, types) ==
    IF types = <<>> THEN <<>>
    ELSE LET k == Head(types)
         IN  <<[op |-> "type", k |-> k]>>
             \o (IF unit[k].member # "none"
                 THEN <<[op |-> "member", k |-> k], [op |-> "end_member", k |-> k]>>
                 ELSE <<>>)
             \o <<[op |-> "end_type", k |-> k], [op |-> "end_type", k |-> k]>>
             \o PlanEndsTwice(unit, Tail(types))

\* the steps of parse() up to build_line_map: the classes of the unit in the
\* order of tree.filter, then its interfaces; for each the structure is
\* appended, its method is appended and given its end line, and the end line
\* of the type is updated
RECURSIVE Plan(_, _)
Plan(unit, types) ==
    IF types = <<>> THEN <<>>
    ELSE LET k == Head(types)
         IN  <<[op |-> "type", k |-> k]>>
             \o (IF unit[k].member # "none"
                 THEN <<[op |-> "member", k |-> k], [op |-> "end_member", k |-> k]>>
                 ELSE <<>>)
             \o <<[op |-> "end_type", k |-> k]>>
             \o Plan(unit, Tail(types))

\* for path, node in tree.filter(ClassDeclaration), then InterfaceDeclaration
FilterOrder(unit) ==
    LET all == [k \in 1..Len(unit) |-> k]
    IN  SelectSeq(all, LAMBDA k : unit[k].kind = "class")
        \o SelectSeq(all, LAMBDA k : unit[k].kind = "interface")

\* the step parse() is at: one step was taken per structure appended and per
\* end line assigned
NextStep(unit, structs, writes) ==
    LET RECURSIVE Sum(_)
        Sum(q) == IF q = <<>> THEN 0 ELSE Head(q) + Sum(Tail(q))
        steps == Plan(unit, FilterOrder(unit))
        at == Len(structs) + Sum(writes) + 1
    IN  IF at <= Len(steps)
        THEN [op |-> steps[at].op, k |-> steps[at].k, last |-> at = Len(steps)]
        ELSE [op |-> "done", k |-> 0, last |-> FALSE]

\* JavaAnalyzer._find_parent_structure for type k: the items of the path are
\* the enclosing declarations, the outermost first
find_parent_structure(unit, k, structs) ==
    LET found(j) == {i \in 1..Len(structs) :
                        structs[i].name = unit[j].name /\ structs[i].type = "class"}
        items == {j \in 1..(k - 1) : unit[j].kind = "class" /\ found(j) # {}}
    IN  IF items = {} THEN None
        ELSE LET item == CHOOSE j \in items : \A m \in items : j <= m
             IN  CHOOSE i \in found(item) : \A m \in found(item) : i <= m

InitTree ==
    /\ IdleDiff
    /\ self_content \in JavaUnits
    /\ end_writes = <<>>
    /\ structures = <<>>
    /\ line_map = EmptyMap
    /\ an_pc = "created"
    /\ query = 0
    /\ result = None

\* self.structures.append(...) of _process_class, _process_interface and
\* _process_method: the structure with its placeholder end line
AppendStructure ==
    /\ an_pc = "created"
    /\ LET step == NextStep(self_content, structures, end_writes)
           type == self_content[step.k]
           start_line == TypeLine(self_content, step.k)
       IN  /\ step.op \in {"type", "member"}
           /\ structures' = Append(structures,
                 IF step.op = "member"
                 THEN CodeStructure("f", "method", start_line + 1,
                                    start_line + 1 + DEFAULT_METHOD_LINES,
                                    Len(structures), <<>>)
                 ELSE IF type.kind = "class"
                 THEN CodeStructure(type.name, "class", start_line,
                                    start_line + DEFAULT_CLASS_LINES,
                                    find_parent_structure(self_content, step.k,
                                                          structures), <<>>)
                 ELSE CodeStructure(type.name, "interface", start_line,
                                    start_line + DEFAULT_INTERFACE_LINES, None, <<>>))
    /\ end_writes' = Append(end_writes, 0)
    /\ UNCHANGED <<line_map, an_pc, query, result, self_content>>
    /\ UNCHANGED dfVars

\* self._update_structure_end_line(...) at the end of _process_method,
\* _process_class and _process_interface
UpdateEndLine ==
    /\ an_pc = "created"
    /\ LET step == NextStep(self_content, structures, end_writes)
           i == IF step.op = "end_type" /\ self_content[step.k].member # "none"
                THEN Len(structures) - 1
                ELSE Len(structures)
       IN  /\ step.op \in {"end_member", "end_type"}
           /\ structures' = [structures EXCEPT ![i] =
                 update_structure_end_line(Layout(self_content), @)]
           /\ end_writes' = [end_writes EXCEPT ![i] = @ + 1]
           /\ an_pc' = IF step.last THEN "extracted" ELSE "created"
    /\ UNCHANGED <<line_map, query, result, self_content>>
    /\ UNCHANGED dfVars

NextTree == AppendStructure \/ UpdateEndLine \/ BuildLineMap

SpecTree == InitTree /\ [][NextTree]_vars

\* ================================================================== claims
Kind(t) == IF t = NoText THEN "none" ELSE ParsedKind(t)

\* the change a step appended (the step changed `changes`)
Appended == changes'[current_file][Len(changes'[current_file])]

\* ------------------------------------------------------------------ C2
HunkLineNumbersStep ==
    hunk.open =>
        /\ Kind(line') = "add" =>
              /\ current_line_old' = current_line_old
              /\ changes' # changes =>
                    /\ Appended.change_type = "+"
                    /\ Appended.line_num = hunk.new + hunk.ctx + hunk.add
        /\ Kind(line') = "del" =>
              /\ current_line_new' = current_line_new
              /\ changes' # changes =>
                    /\ Appended.change_type = "-"
                    /\ Appended.line_num = hunk.old + hunk.ctx + hunk.del
        /\ Kind(line') = "ctx" =>
              /\ current_line_new' = current_line_new + 1
              /\ current_line_old' = current_line_old + 1

\* C2: inside a hunk opened by `@@ -a[,x] +b[,y] @@` an Addition is recorded
\* with line number b plus the number of Context and Addition lines before it
\* in the hunk, a Deletion with a plus the number of Context and Deletion
\* lines before it; an Addition leaves the old-line counter, a Deletion the
\* new-line counter unchanged, a Context line adds one to both.
HunkLineNumbers == [][HunkLineNumbersStep]_vars

HunkLineNumbersWitness ==
    /\ hunk.open /\ hunk.ctx >= 1 /\ hunk.add >= 2
    /\ Kind(line) = "add"
    /\ current_file \in DOMAIN changes
    /\ \E k \in 1..Len(changes[current_file]) :
          /\ changes[current_file][k].change_type = "+"
          /\ changes[current_file][k].line_num = hunk.new + hunk.ctx + hunk.add - 1

\* ------------------------------------------------------------------ C3
\* C3 as stated: after `@@ -10,3 +10,4 @@`, 1 context line, 1 deletion,
\* 1 addition and 2 context lines, the new-line counter is 14 and the
\* old-line counter 13.
ScenarioCounters ==
    hunk.scen = Len(Scenario) => current_line_new = 14 /\ current_line_old = 13

\* C3 (amended): after those six lines both counters are 14: the old-line
\* counter starts at 10 and the three context lines and the deletion each add
\* one to it.
ScenarioCountersBoth ==
    hunk.scen = Len(Scenario) => current_line_new = 14 /\ current_line_old = 14

ScenarioCountersBothWitness ==
    /\ hunk.scen = Len(Scenario)
    /\ hunk.ctx = 3 /\ hunk.add = 1 /\ hunk.del = 1

\* ------------------------------------------------------------------ C4
\* C4: for a well-formed hunk with an explicit new-line count, whatever the
\* text of its body lines, the new-line counter stands at newStart + newCount
\* when the lines of the new file that the hunk declares have been processed.
DeclaredNewCount ==
    (hunk.intact /\ hunk.t_new = hunk.decl_new) =>
        current_line_new = hunk.t_start + hunk.decl_new

\* ------------------------------------------------------------------ C5
Supported(file_path) ==
    Suffix(file_path) = ".py" \/ (Suffix(file_path) = ".java" /\ JAVALANG_AVAILABLE)

\* the index that parsing a version of a file yields, when it yields one
NewObtained(f) == DiskContent(f).avail /\ Supported(f) /\ DiskContent(f).parses
OldObtained(f) ==
    ContentTruthy(HeadContent(f)) /\ Supported(f) /\ HeadContent(f).parses
NewIndex(f) == ParsedAnalyzer(f, DiskContent(f))
OldIndex(f) == ParsedAnalyzer(f, HeadContent(f))

ResolvedIn(index, key, n) ==
    LET ix == get_structure_at_line(index.structures, index.line_map, n)
    IN  IF ix = None THEN NoStructure ELSE [an |-> key, ix |-> ix]

IsNewKey(key) == key # NoText /\ key[Len(key)] # ":old"

IndexSidesStep ==
    /\ (Kind(line') = "add" /\ changes' # changes) =>
          /\ NewObtained(current_file)
          /\ Appended.structure =
                ResolvedIn(NewIndex(current_file), current_file, current_line_new)
    /\ (Kind(line') = "del" /\ changes' # changes) =>
          IF OldObtained(current_file_old)
          THEN Appended.structure =
                  ResolvedIn(OldIndex(current_file_old), OldKey(current_file_old),
                             current_line_old)
          ELSE /\ IsNewKey(current_analyzer_old)
               /\ NewObtained(current_analyzer_old)
               /\ Appended.structure =
                     ResolvedIn(NewIndex(current_analyzer_old), current_analyzer_old,
                                current_line_old)

\* C5: every Addition is resolved against the index built from the new
\* version of the file of the current new-file header, every Deletion against
\* the index built from the old version of the file of the current old-file
\* header; a new-file index serves a Deletion only when no old-file index was
\* obtained for that file.
IndexSides == [][IndexSidesStep]_vars

IndexSidesWitness ==
    /\ Kind(line) = "del"
    /\ current_file = GoodPy
    /\ GoodPy \in DOMAIN changes
    /\ \E k \in 1..Len(changes[GoodPy]) :
          /\ changes[GoodPy][k].change_type = "-"
          /\ changes[GoodPy][k].structure.an = OldKey(GoodPy)

\* ------------------------------------------------------------------ C6
NewFails(f) == DiskContent(f).avail /\ Supported(f) /\ ~DiskContent(f).parses
OldFails(f) ==
    ContentTruthy(HeadContent(f)) /\ Supported(f) /\ ~HeadContent(f).parses

\* C6 as stated: when parsing a version of a file fails, every Addition and
\* Deletion line of that file still yields a Change record whose structure is
\* None.
FailedParseStillRecordsStep ==
    /\ (Kind(line') = "add" /\ Truthy(current_file) /\ NewFails(current_file)) =>
          changes' # changes /\ Appended.structure = NoStructure
    /\ (Kind(line') = "del" /\ Truthy(current_file) /\ OldFails(current_file_old)) =>
          changes' # changes /\ Appended.structure = NoStructure

FailedParseStillRecords == [][FailedParseStillRecordsStep]_vars

FailedParseStep ==
    /\ (Kind(line') = "add" /\ NewFails(current_file)) => changes' = changes
    /\ (Kind(line') = "del" /\ OldFails(current_file_old)) =>
          IF current_analyzer_old = NoText \/ ~Truthy(current_file)
          THEN changes' = changes
          ELSE /\ IsNewKey(current_analyzer_old)
               /\ changes' # changes
               /\ Appended.structure =
                     ResolvedIn(NewIndex(current_analyzer_old), current_analyzer_old,
                                current_line_old)
    /\ \A f \in {GoodPy, BadPy, FixedPy, NotesMd, DevNull} :
          /\ NewFails(f) => f \notin DOMAIN analyzers'
          /\ OldFails(f) => OldKey(f) \notin DOMAIN analyzers'

\* C6 (amended): a file version that fails to parse yields no analyzer and no
\* structures; the Additions of a file whose new version failed to parse yield
\* no Change record; the Deletions of a file whose old version failed to parse
\* are resolved against the new-file analyzer in use, when there is one, and
\* yield no Change record otherwise.
FailedParse == [][FailedParseStep]_vars

FailedParseWitness ==
    /\ Kind(line) = "del"
    /\ current_file = FixedPy /\ current_file_old = FixedPy
    /\ current_analyzer_old = FixedPy
    /\ FixedPy \in DOMAIN changes
    /\ changes[FixedPy][1].structure = [an |-> FixedPy, ix |-> 1]

\* ------------------------------------------------------------------ C7
GroupKeys(cache, chgs) == {GroupKey(cache, chgs[k]) : k \in 1..Len(chgs)}
LineNums(chgs) == {chgs[k].line_num : k \in 1..Len(chgs)}

\* the changes of file f that the printer puts in group g at line n
InGroupAtLine(f, g, n) == ChangesAtLine(Group(analyzers, changes[f], g), n)

IsCollapsiblePair(q) ==
    /\ Len(q) = 2
    /\ {q[1].change_type, q[2].change_type} = {"+", "-"}
    /\ RStrip(q[1].content) = RStrip(q[2].content)

\* C7 as stated: an Addition and a Deletion on the same line number of the
\* same structure group, with the same trimmed content, leave one merged
\* record in the output of analyze(), not two.
PairMergedInOutputStep ==
    (Kind(line') \in {"add", "del"} /\ changes' # changes) =>
        LET f == current_file
            mine == Appended
            same == {k \in 1..Len(changes'[f]) :
                        /\ changes'[f][k].line_num = mine.line_num
                        /\ GroupKey(analyzers, changes'[f][k]) = GroupKey(analyzers, mine)
                        /\ Strip(changes'[f][k].content) = Strip(mine.content)}
        IN  (\E k \in same : changes'[f][k].change_type # mine.change_type) =>
                Cardinality(same) = 1

PairMergedInOutput == [][PairMergedInOutputStep]_vars

\* C7 (amended): analyze() returns both records; the listing of the group
\* prints that line once, unsigned, when the two are the only records of the
\* group at that line number and their contents are equal once trailing
\* whitespace is removed.
PairPrintedOnce ==
    \A f \in DOMAIN changes :
        \A g \in GroupKeys(analyzers, changes[f]) :
            \A n \in LineNums(changes[f]) :
                IsCollapsiblePair(InGroupAtLine(f, g, n)) =>
                    /\ Len(PrintedAtLine(InGroupAtLine(f, g, n))) = 1
                    /\ PrintedAtLine(InGroupAtLine(f, g, n))[1].sign = " "
                    /\ Len(changes[f]) >= 2

PairPrintedOnceWitness ==
    \E f \in DOMAIN changes :
        \E g \in GroupKeys(analyzers, changes[f]) :
            \E n \in LineNums(changes[f]) :
                /\ IsCollapsiblePair(InGroupAtLine(f, g, n))
                /\ InGroupAtLine(f, g, n)[1].content # InGroupAtLine(f, g, n)[2].content
                /\ g # UnknownStructure

\* ------------------------------------------------------------------ C8
\* C8: each distinct cache key is parsed at most once in a run, whether the
\* parse succeeds or fails.
ParsedAtMostOnce == \A key \in DOMAIN parse_calls : parse_calls[key] <= 1

\* ------------------------------------------------------------------ C9
IsDefinition(k) == k \in {"class", "def", "decodef"}

\* the definition that encloses statement i of the nesting, 0 when none does
Enclosing(nesting, i) ==
    LET outer == {j \in 1..(i - 1) : IsDefinition(nesting[j])}
    IN  IF outer = {} THEN 0 ELSE CHOOSE j \in outer : \A m \in outer : m <= j

MethodsInClass(nesting) ==
    {i \in 1..Len(nesting) :
        /\ nesting[i] \in {"def", "decodef"}
        /\ Enclosing(nesting, i) # 0
        /\ nesting[Enclosing(nesting, i)] = "class"}

\* statement i of the nesting, in the tree of the source
RECURSIVE NodeAt(_, _)
NodeAt(node, i) ==
    IF i = 0 THEN node
    ELSE LET stmts == node.body \o node.orelse
         IN  NodeAt(stmts[CHOOSE k \in 1..Len(stmts) : stmts[k].kind # "Pass"], i - 1)

NodeOf(nesting, i) == NodeAt(ast_parse(nesting), i)

InSpan(node, n) == node.lineno <= n /\ n <= node.end_lineno

InNestedDefinition(nesting, i, n) ==
    \E j \in (i + 1)..Len(nesting) :
        IsDefinition(nesting[j]) /\ InSpan(NodeOf(nesting, j), n)

\* the path of definition i: its ancestors from the outermost to itself
RECURSIVE PathOf(_, _)
PathOf(nesting, i) ==
    IF i = 0 THEN <<>>
    ELSE LET up == PathOf(nesting, Enclosing(nesting, i))
             word == IF nesting[i] = "class" THEN <<"class", ClassNames[i]>>
                     ELSE IF i \in MethodsInClass(nesting)
                     THEN <<"method", DefNames[i]>>
                     ELSE <<"function", DefNames[i]>>
             mods == IF nesting[i] = "decodef" THEN <<"@staticmethod">> ELSE <<>>
         IN  (IF up = <<>> THEN <<>> ELSE up \o <<">">>) \o mods \o word

\* C9: when a method is nested in a class, a line inside the method's span
\* (and inside no definition nested in the method) resolves to the method,
\* not to the class, and the method's full path lists its ancestors from the
\* outermost to itself joined by ' > ' ("class Order > method total").
MethodLineResolvesToMethod ==
    an_pc = "looked" =>
        \A i \in MethodsInClass(self_content) :
            (/\ InSpan(NodeOf(self_content, i), query)
             /\ ~InNestedDefinition(self_content, i, query)) =>
                /\ result # None
                /\ structures[result].type = "method"
                /\ structures[result].name = DefNames[i]
                /\ get_full_path(structures, result) = PathOf(self_content, i)

\* ----------------------------------------------------------------- C10
StartLine == self_content[PositionLine(self_content)]

\* the lexemes of the start line before the declaration, and of its body
BeforeDecl ==
    SubSeq(StartLine, 1, (CHOOSE p \in 1..Len(StartLine) : StartLine[p] = "decl") - 1)
BodyOfMethod ==
    SubSeq(StartLine, (CHOOSE p \in 1..Len(StartLine) : StartLine[p] = "open") + 1,
           (CHOOSE p \in 1..Len(StartLine) : StartLine[p] = "close") - 1)
Holds(lexemes, S) == \E p \in 1..Len(lexemes) : lexemes[p] \in S

Misread == {"chr_brace", "chr_quote", "cmt_brace", "str_backslash"}

Quotes(chars, j) ==
    {k \in 1..j : chars[k] = "\"" /\ (k = 1 \/ chars[k - 1] # "\\")}
InString(chars, j) == Cardinality(Quotes(chars, j)) % 2 = 1
CommentStarts(chars) ==
    {j \in 1..(Len(chars) - 1) :
        ~InString(chars, j) /\ chars[j] = "/" /\ chars[j + 1] = "/"}
Counted(chars, j) ==
    /\ chars[j] \in {"{", "}"}
    /\ ~InString(chars, j)
    /\ \A c \in CommentStarts(chars) : j < c

\* the positions <<line, column>> of the counted braces from line `from` on
CountedFrom(lines, from) ==
    UNION { { <<i, j>> : j \in {c \in 1..Len(lines[i]) : Counted(lines[i], c)} }
            : i \in from..Len(lines) }
NotAfter(p, q) == p[1] < q[1] \/ (p[1] = q[1] /\ p[2] <= q[2])

\* the counter once the brace at position q is counted
CounterAt(lines, from, q) ==
    Cardinality({p \in CountedFrom(lines, from) :
                    NotAfter(p, q) /\ lines[p[1]][p[2]] = "{"})
    - Cardinality({p \in CountedFrom(lines, from) :
                    NotAfter(p, q) /\ lines[p[1]][p[2]] = "}"})

\* the closing braces at which the counter is back at zero, an opening brace
\* having been counted before
Returns(lines, from) ==
    {q \in CountedFrom(lines, from) :
        /\ lines[q[1]][q[2]] = "}"
        /\ CounterAt(lines, from, q) = 0
        /\ \E p \in CountedFrom(lines, from) : NotAfter(p, q) /\ lines[p[1]][p[2]] = "{"}

ClaimedEndLine(lines, from) ==
    IF Returns(lines, from) = {}
    THEN Min(from + 100, Len(lines))
    ELSE CHOOSE l \in {q[1] : q \in Returns(lines, from)} :
            \A q \in Returns(lines, from) : l <= q[1]

StartNotAfterEnd ==
    an_pc \in {"extracted", "built"} =>
        \A i \in 1..Len(structures) :
            structures[i].start_line <= structures[i].end_line

\* ----------------------------------------------------------------- C13
\* the files of the working tree and of HEAD that analyze() could index
KnownFiles == {GoodPy, BadPy, FixedPy, NotesMd}

\* C13: a file whose old and new version are the same has no lines in the
\* diff, and analyze() returns no Change record for it.
NoRecordsForUnchangedFile ==
    \A f \in KnownFiles :
        f \notin hunk.named => f \notin DOMAIN changes

NoRecordsForUnchangedFileWitness ==
    /\ fed = MaxFedFiles
    /\ GoodPy \in DOMAIN changes /\ Len(changes[GoodPy]) >= 2
    /\ hunk.named = {GoodPy}
    /\ FixedPy \notin DOMAIN changes

\* ----------------------------------------------------------------- C14
\* C14: build_line_map gives the table that the ordered structure list
\* determines, and a second run on the built table leaves every entry as
\* it is.
BuildDeterministicStep ==
    (an_pc \in {"extracted", "built"} /\ an_pc' = "built") =>
        /\ line_map' = build_line_map(structures, EmptyMap)
        /\ an_pc = "built" => line_map' = line_map

InOrderMet(listed, chgs) ==
    \E pos \in [1..Len(listed) -> 1..Len(chgs)] :
        /\ \A a \in 1..Len(listed) : chgs[pos[a]] = listed[a]
        /\ \A a, b \in 1..Len(listed) : a < b => pos[a] < pos[b]

\* C15 as stated: the changes of a file are displayed in groups by full path
\* ('unknown structure' when no structure was found), the groups in
\* alphabetical order of the path, the changes of a group in the order in
\* which the diff had them.
GroupsKeepOrderMet ==
    \A f \in DOMAIN changes :
        LET listing == Listing(analyzers, changes[f])
        IN  \A g \in 1..Len(listing) :
                listing[g].sorted_changes
                    = Group(analyzers, changes[f], listing[g].struct_path)

\* C15 (amended): the groups are those of the full paths, in ascending order
\* of the path; the changes of a group are displayed in ascending line
\* number, those of one line number in the order in which the diff had them.
GroupsSortedByLine ==
    \A f \in DOMAIN changes :
        LET listing == Listing(analyzers, changes[f])
        IN  /\ {listing[g].struct_path : g \in 1..Len(listing)}
                  = GroupKeys(analyzers, changes[f])
            /\ \A g, h \in 1..Len(listing) :
                  g < h => StrLess(listing[g].struct_path, listing[h].struct_path)
            /\ \A g \in 1..Len(listing) :
                  LET shown == listing[g].sorted_changes
                      group == Group(analyzers, changes[f], listing[g].struct_path)
                  IN  /\ \A a \in 1..Len(shown) :
                            GroupKey(analyzers, shown[a]) = listing[g].struct_path
                      /\ \A a, b \in 1..Len(shown) :
                            a < b => shown[a].line_num <= shown[b].line_num
                      /\ \A n \in LineNums(changes[f]) :
                            /\ ChangesAtLine(shown, n) = ChangesAtLine(group, n)
                            /\ InOrderMet(ChangesAtLine(shown, n), changes[f])

\* an addition met before a deletion of a smaller line number in the same
\* group, and a second group that is displayed before the one met first
GroupsSortedByLineWitness ==
    \E f \in DOMAIN changes :
        LET listing == Listing(analyzers, changes[f])
        IN  /\ Len(listing) >= 2
            /\ GroupKey(analyzers, changes[f][1]) # listing[1].struct_path
            /\ \E g \in 1..Len(listing) :
                  /\ Len(listing[g].sorted_changes) >= 2
                  /\ listing[g].sorted_changes
                        # Group(analyzers, changes[f], listing[g].struct_path)

\* ----------------------------------------------------------------- C16
\* the file whose two header lines were the last header lines, when its old
\* content could not be fetched and its new version was indexed
Unfetched(h) ==
    /\ h.pair # NoText
    /\ ~HeadContent(h.pair).avail
    /\ NewObtained(h.pair) /\ DiskContent(h.pair).parses

\* C16: when the old content of a file cannot be fetched, analyze() goes on:
\* the Additions of the file are recorded, and its Deletions are recorded
\* with the structure that the index of the new version gives for the old
\* line number.
OldUnavailableStep ==
    Unfetched(hunk) =>
        /\ df_pc = "parsing" /\ df_pc' = "parsing"
        /\ Kind(line') = "add" =>
              changes' = Record(changes, hunk.pair,
                                DiffChange(hunk.pair, current_line_new, Tail(line'),
                                           ResolvedIn(NewIndex(hunk.pair), hunk.pair,
                                                      current_line_new), "+"))
        /\ Kind(line') = "del" =>
              changes' = Record(changes, hunk.pair,
                                DiffChange(hunk.pair, current_line_old, Tail(line'),
                                           ResolvedIn(NewIndex(hunk.pair), hunk.pair,
                                                      current_line_old), "-"))

OldUnavailable == [][OldUnavailableStep]_vars

OldUnavailableWitness ==
    /\ Unfetched(hunk)
    /\ hunk.pair \in DOMAIN changes
    /\ \E k \in 1..Len(changes[hunk.pair]) :
          /\ changes[hunk.pair][k].change_type = "-"
          /\ changes[hunk.pair][k].structure = [an |-> hunk.pair, ix |-> 1]

\* ----------------------------------------------------------------- C17
\* C17: a file whose new-file header names a path with an extension that no
\* analyzer takes gets no Change record, Addition or Deletion, under its
\* path.
UnsupportedFileSkipped ==
    \A f \in DOMAIN changes : Supported(f)

\* ----------------------------------------------------------------- C18
\* C18: no Addition and no Deletion is recorded for a file before a hunk
\* header of the right form was processed after the new-file header of that
\* file; the counters that the hunks of the file before left are not used for
\* it.
NoRecordBeforeHunkStep ==
    changes' # changes => hunk.intact

NoRecordBeforeHunk == [][NoRecordBeforeHunkStep]_vars

\* ----------------------------------------------------------------- C19
\* C19: a line that starts with '@@' and is not of the form of a hunk header
\* is passed over: the two counters, the current file, the two analyzers and
\* the recorded changes are after it what they were before it.
MalformedHunkHeaderStep ==
    (Kind(line') = "badhunk") =>
        UNCHANGED <<current_line_new, current_line_old, current_file,
                    current_file_old, current_analyzer_new, current_analyzer_old,
                    analyzers, changes>>

MalformedHunkHeader == [][MalformedHunkHeaderStep]_vars

\* such a line was the last one read, in a hunk that had recorded a change
MalformedHunkHeaderWitness ==
    /\ Kind(line) = "badhunk"
    /\ current_line_new > 1 /\ current_line_old >= 1
    /\ current_file = GoodPy
    /\ GoodPy \in DOMAIN changes

\* ----------------------------------------------------------------- C20
\* what the scan of get_structure_at_line gives for a line, the table put
\* aside
FallbackScan(structs, n) == get_structure_at_line(structs, EmptyMap, n)

\* C20: once the table is built, it and the scan agree on every line: the
\* entry of a line is the first structure, in the order of extraction, among
\* those of least line_count that cover the line; the scan is reached only
\* for lines that no structure covers, and gives None for them.
TableAgreesWithScan ==
    an_pc \in {"built", "looked"} =>
        \A n \in 0..(MaxLine + 1) :
            /\ n \in DOMAIN line_map <=> Covering(structures, n) # {}
            /\ n \in DOMAIN line_map =>
                  /\ line_map[n] = FallbackScan(structures, n)
                  /\ line_map[n] \in Covering(structures, n)
                  /\ \A j \in Covering(structures, n) :
                        \/ line_count(structures[line_map[n]]) < line_count(structures[j])
                        \/ /\ line_count(structures[line_map[n]]) = line_count(structures[j])
                           /\ line_map[n] <= j
            /\ n \notin DOMAIN line_map =>
                  /\ FallbackScan(structures, n) = None
                  /\ get_structure_at_line(structures, line_map, n) = None

\* a built table with a line that two structures of the same least size
\* cover, and a line that none covers
TableAgreesWithScanWitness ==
    /\ an_pc = "built"
    /\ \E n \in DOMAIN line_map :
          \E j \in Covering(structures, n) :
              /\ j > line_map[n]
              /\ line_count(structures[j]) = line_count(structures[line_map[n]])
    /\ \E n \in 1..MaxLine : n \notin DOMAIN line_map

\* ----------------------------------------------------------------- C22
\* the line with character j taken out of the scan's sight
Blanked(chars, j) == [chars EXCEPT ![j] = "x"]

\* what the scan of one line leaves, entered with a counter and a flag
LineOutcome(chars, brace_count, found_start) ==
    ScanLine(chars, 1, FALSE, brace_count, found_start)

\* character j has no part in the scan of its line
NoPartInScan(chars, j) ==
    \A brace_count \in 0..2, found_start \in BOOLEAN :
        LineOutcome(chars, brace_count, found_start)
            = LineOutcome(Blanked(chars, j), brace_count, found_start)

\* the braces of a line that stand in a string or behind a line comment, and
\* the double quotes that follow a backslash
BracesOutOfScan(chars) ==
    {j \in 1..Len(chars) :
        /\ chars[j] \in {"{", "}"}
        /\ InString(chars, j) \/ \E c \in CommentStarts(chars) : c < j}
EscapedQuotes(chars) ==
    {j \in 2..Len(chars) : chars[j] = "\"" /\ chars[j - 1] = "\\"}

\* C22: a brace between a double quote that no backslash precedes and the
\* next such quote of the line, or behind a `//` outside a string, changes
\* neither the counter nor the flag of the scan; a double quote that follows
\* a backslash leaves the in-string flag as it is.
BracesInStringsSkipped ==
    an_pc \in {"extracted", "built"} =>
        \A k \in 1..Len(self_content) :
            LET chars == SplitLines(self_content)[k]
            IN  \A j \in BracesOutOfScan(chars) \cup EscapedQuotes(chars) :
                    NoPartInScan(chars, j)

\* a method whose line holds the string "\"}" and the comment `// }`, and
\* whose scan ended on the brace that closes it
BracesInStringsSkippedWitness ==
    /\ an_pc = "extracted"
    /\ \E k \in 1..Len(self_content) :
          LET chars == SplitLines(self_content)[k]
          IN  /\ k = structures[1].start_line
              /\ k = structures[1].end_line
              /\ EscapedQuotes(chars) # {}
              /\ \E j \in BracesOutOfScan(chars) : InString(chars, j)
              /\ \E j \in BracesOutOfScan(chars) : ~InString(chars, j)

\* ----------------------------------------------------------------- C21
\* the end line a structure is created with
Placeholder(struct) ==
    struct.start_line
        + (CASE struct.type = "class" -> DEFAULT_CLASS_LINES
             [] struct.type = "interface" -> DEFAULT_INTERFACE_LINES
             [] struct.type = "method" -> DEFAULT_METHOD_LINES)

\* C21: in the brace-delimited variant the end line of a structure is
\* assigned once after the structure was made, before build_line_map runs,
\* and not again; when build_line_map runs no structure has the end line it
\* was made with.
EndLineWrittenOnceStep ==
    /\ \A i \in 1..Len(structures) :
          (\/ structures'[i].end_line # structures[i].end_line
           \/ end_writes'[i] # end_writes[i]) =>
              /\ an_pc = "created"
              /\ line_map = EmptyMap
              /\ end_writes[i] = 0 /\ end_writes'[i] = 1
    /\ line_map' # line_map =>
          /\ structures' = structures
          /\ \A i \in 1..Len(structures) :
                /\ end_writes[i] = 1
                /\ structures[i].end_line # Placeholder(structures[i])

Extracted == an_pc \in {"extracted", "built"}

\* C23: in the brace-delimited variant every structure with a parent, a
\* method without body included, lies inside the range of its parent:
\* parent.start_line <= start_line and end_line <= parent.end_line, so that
\* its line_count is at most the parent's.
ChildInsideParent ==
    Extracted =>
        \A i \in 1..Len(structures) :
            structures[i].parent # None =>
                LET parent == structures[structures[i].parent]
                IN  /\ parent.start_line <= structures[i].start_line
                    /\ structures[i].end_line <= parent.end_line
                    /\ line_count(structures[i]) <= line_count(parent)

\* ----------------------------------------------------------------- C24
\* the structure made for type k of the unit
StructureOf(k) ==
    CHOOSE i \in 1..Len(structures) :
        /\ structures[i].type = self_content[k].kind
        /\ structures[i].start_line = TypeLine(self_content, k)

\* the names of the classes around type k and its own, the outermost first
RECURSIVE EnclosingPath(_)
EnclosingPath(k) ==
    (IF k = 1 THEN <<>> ELSE EnclosingPath(k - 1) \o <<">">>)
        \o <<"class", self_content[k].name>>

\* C24: the parent of a class nested in classes, to any depth, is the
\* structure of the class right around it, not of an outer one nor of another
\* class of the same name, and its full path names every class around it from
\* the outermost to itself.
ParentIsEnclosingClass ==
    Extracted =>
        \A k \in 2..Len(self_content) :
            (\A j \in 1..k : self_content[j].kind = "class") =>
                /\ structures[StructureOf(k)].parent = StructureOf(k - 1)
                /\ get_full_path(structures, StructureOf(k)) = EnclosingPath(k)

\* ----------------------------------------------------------------- C25
\* the contents the old side of a diff of path f can have: f as the revision
\* has it, or, in the comparison of f with another file, f as it is on disk
OldSideContents(f) == {c \in {HeadContent(f), DiskContent(f)} : c.avail}

\* C25: the two indexes are built from the two sides of the diff under
\* analysis: the old index from the content of the old path (at the old
\* revision, or of file1 in a comparison of two files), the new index from
\* the content of the new path (at the new revision, or of file2).
IndexesFromDiffSides ==
    /\ (current_analyzer_old # NoText /\ current_file_old # DevNull) =>
           \E c \in OldSideContents(current_file_old) :
               analyzers[current_analyzer_old] = ParsedAnalyzer(current_file_old, c)
    /\ current_analyzer_new # NoText =>
           analyzers[current_analyzer_new]
               = ParsedAnalyzer(current_file, DiskContent(current_file))

====
